---------------------------- MODULE Spec2Model ----------------------------
(***************************************************************************)
(* A model of go-bsm (src/bsm.go): the byte-integer primitives, the token  *)
(* sizer determineTokenSize, the token reader/decoder TokenFromByteInput,  *)
(* the record framer ReadBsmRecord and the channel generator               *)
(* RecordGenerator with its consumer.                                      *)
(*                                                                         *)
(* Bytes are naturals in 0..255, a []byte is a sequence of bytes, a Go     *)
(* slice expression s[a:b] is Slice(s, a, b).  An error value is a string; *)
(* NoErr stands for nil.  TLC's integers are 32-bit signed, so the byte    *)
(* streams drawn below keep every decoded integer under 2^31, where        *)
(* uint32/uint64 arithmetic cannot wrap.                                   *)
(***************************************************************************)
EXTENDS Integers, Sequences, FiniteSets, TLC

(***************************************************************************)
(* Go values                                                               *)
(***************************************************************************)
NoErr == "nil"

EOF == "EOF"

Slice(s, a, b) == SubSeq(s, a + 1, b)

\* s[a:b] is evaluated without a run-time panic
InBounds(s, a, b) == 0 <= a /\ a <= b /\ b <= Len(s)

RECURSIVE Pow256(_)
Pow256(e) == IF e = 0 THEN 1 ELSE 256 * Pow256(e - 1)

RECURSIVE CountZero(_)
CountZero(s) ==
    IF s = <<>> THEN 0
    ELSE (IF Head(s) = 0 THEN 1 ELSE 0) + CountZero(Tail(s))

RECURSIVE Zeros(_)
Zeros(n) == IF n <= 0 THEN <<>> ELSE <<0>> \o Zeros(n - 1)

(***************************************************************************)
(* Byte-integer primitives.  The loop of the source adds                   *)
(* input[i] * 256^(len-i-1) for i = 0..len-1; a zero coefficient adds      *)
(* nothing.                                                                *)
(***************************************************************************)
RECURSIVE SumBytes(_, _, _)
SumBytes(input, i, result) ==
    IF i >= Len(input) THEN result
    ELSE LET coeff == input[i + 1]
             exp == Len(input) - i - 1
             term == IF coeff = 0 THEN 0 ELSE coeff * Pow256(exp)
         IN  SumBytes(input, i + 1, result + term)

bytesToUint64(input) ==
    IF 8 < Len(input)
    THEN [val |-> 0, err |-> "more than four bytes given -> risk of overflow"]
    ELSE [val |-> SumBytes(input, 0, 0), err |-> NoErr]

\* bytesToUint32 taking only slices of the full width
bytesToUint32_fullWidth(input) ==
    IF 4 # Len(input)
    THEN [val |-> 0, err |-> "more than four bytes given -> risk of overflow"]
    ELSE [val |-> SumBytes(input, 0, 0), err |-> NoErr]

bytesToUint32(input) ==
    IF 4 < Len(input)
    THEN [val |-> 0, err |-> "more than four bytes given -> risk of overflow"]
    ELSE [val |-> SumBytes(input, 0, 0), err |-> NoErr]

bytesToUint16(input) ==
    IF 2 < Len(input)
    THEN [val |-> 0, err |-> "more than two bytes given -> risk of overflow"]
    ELSE [val |-> SumBytes(input, 0, 0) % 65536, err |-> NoErr]

(***************************************************************************)
(* determineTokenSize: (size, moreBytes, err)                              *)
(***************************************************************************)
SizeIs(n) == [size |-> n, moreBytes |-> 0, err |-> NoErr]

NeedMore(n) == [size |-> 0, moreBytes |-> n, err |-> NoErr]

SizeErr(e) == [size |-> 0, moreBytes |-> 0, err |-> e]

\* fmt's %x of a byte: lower-case hexadecimal without leading zeros
HexDigit == <<"0", "1", "2", "3", "4", "5", "6", "7", "8", "9", "a", "b", "c", "d", "e", "f">>

Hex(n) ==
    IF n < 16 THEN HexDigit[n + 1]
    ELSE HexDigit[(n \div 16) + 1] \o HexDigit[(n % 16) + 1]

\* SizeUnknown taking an unknown ID for a token of one byte
SizeUnknown_oneByte(id) == SizeIs(1)

\* lines 877-879: the default case of the switch on input[0]
SizeUnknown(id) ==
    SizeErr("can't determine the size of the given token (type): 0x" \o Hex(id))

\* SizeByLen16 leaving out the bytes that follow the counted ones
SizeByLen16_noExtra(input, upto, base, unit, extra) ==
    IF Len(input) < upto THEN NeedMore(upto - Len(input))
    ELSE LET c == bytesToUint16(Slice(input, upto - 2, upto))
         IN  IF c.err # NoErr THEN SizeErr(c.err)
             ELSE SizeIs(base + c.val * unit)

\* a token whose size follows a 16-bit length field ending at offset `upto`
SizeByLen16(input, upto, base, unit, extra) ==
    IF Len(input) < upto THEN NeedMore(upto - Len(input))
    ELSE LET c == bytesToUint16(Slice(input, upto - 2, upto))
         IN  IF c.err # NoErr THEN SizeErr(c.err)
             ELSE SizeIs(base + c.val * unit + extra)

\* a token holding strCount NUL-terminated strings after its count field
SizeByStrings(input, upto) ==
    IF Len(input) < upto THEN NeedMore(upto - Len(input))
    ELSE LET c == IF upto = 3 THEN bytesToUint16(Slice(input, 1, upto))
                  ELSE bytesToUint32(Slice(input, 1, upto))
         IN  IF c.err # NoErr THEN SizeErr(c.err)
             ELSE IF CountZero(Slice(input, upto, Len(input))) < c.val
                  THEN NeedMore(1)
                  ELSE SizeIs(Len(input))

\* SizeByAddr without the default case of its switch
SizeByAddr_noDefault(addrlen, size4, size16, what) ==
    IF addrlen = 4 THEN SizeIs(size4)
    ELSE IF addrlen = 16 THEN SizeIs(size16)
    ELSE [size |-> 0, moreBytes |-> 0, err |-> NoErr]

\* a token whose size depends on an address length of 4 or 16
SizeByAddr(addrlen, size4, size16, what) ==
    IF addrlen = 4 THEN SizeIs(size4)
    ELSE IF addrlen = 16 THEN SizeIs(size16)
    ELSE SizeErr("invalid value for " \o what)

SizeExpandedHeader(input, size4, size16, what) ==
    IF Len(input) < 15 THEN NeedMore(15 - Len(input))
    ELSE LET c == bytesToUint32(Slice(input, 10, 14))
         IN  IF c.err # NoErr THEN SizeErr(c.err)
             ELSE SizeByAddr(c.val, size4, size16, what)

SizeExpanded32(input, what) ==
    IF Len(input) < 37 THEN NeedMore(37 - Len(input))
    ELSE LET c == bytesToUint32(Slice(input, 33, 37))
         IN  IF c.err # NoErr THEN SizeErr(c.err)
             ELSE SizeByAddr(c.val, 41, 53, what)

determineTokenSize(input) ==
    IF Len(input) = 0 THEN NeedMore(1)
    ELSE LET id == input[1] IN
    CASE id = 17 -> SizeByLen16(input, 11, 11, 1, 1)            \* 0x11 file
      [] id = 19 -> SizeIs(1 + 2 + 4)                            \* 0x13 trailer
      [] id = 20 -> SizeIs(1 + 4 + 1 + 2 + 2 + 4 + 4)            \* 0x14 header32
      [] id = 21 -> SizeExpandedHeader(input,                    \* 0x15
                        1 + 4 + 1 + 2 + 2 + 4 + 4 + 4 + 4,
                        1 + 4 + 1 + 2 + 2 + 4 + 16 + 4 + 4,
                        "'address type' field in 32bit expanded header token")
      [] id = 33 -> IF Len(input) < 4 THEN NeedMore(4 - Len(input)) \* 0x21
                    ELSE SizeIs(1 + 1 + 1 + 1 + input[3] * input[4])
      [] id = 34 -> SizeIs(1 + 1 + 4)                            \* 0x22
      [] id = 35 -> SizeByLen16(input, 3, 3, 1, 0)               \* 0x23 path
      [] id = 36 -> SizeIs(1 + 4 + 4 + 4 + 4 + 4 + 4 + 4 + 4 + 4) \* 0x24
      [] id = 37 -> SizeByStrings(input, 3)                     \* 0x25
      [] id = 38 -> SizeIs(1 + 4 + 4 + 4 + 4 + 4 + 4 + 4 + 4 + 4) \* 0x26
      [] id = 39 -> SizeIs(1 + 1 + 4)                            \* 0x27 return32
      [] id = 40 -> SizeByLen16(input, 3, 3, 1, 0)               \* 0x28 text
      [] id = 42 -> SizeIs(1 + 4)                                \* 0x2a
      [] id = 43 -> SizeIs(1 + 1 + 1 + 2 + 2 + 2 + 1 + 1 + 2 + 4 + 4) \* 0x2b
      [] id = 44 -> SizeIs(1 + 2)                                \* 0x2c iport
      [] id = 45 -> SizeByLen16(input, 8, 8, 1, 0)               \* 0x2d arg32
      [] id = 46 -> SizeIs(1 + 2 + 2 + 4)                        \* 0x2e socket
      [] id = 47 -> SizeIs(1 + 4)                                \* 0x2f seq
      [] id = 50 -> SizeIs(1 + 4 + 4 + 4 + 4 + 4 + 4 + 4)        \* 0x32
      [] id = 52 -> SizeByLen16(input, 3, 3, 4, 0)               \* 0x34 groups
      [] id = 60 -> SizeByStrings(input, 5)                     \* 0x3c
      [] id = 61 -> SizeByStrings(input, 5)                     \* 0x3d
      [] id = 62 -> SizeIs(1 + 4 + 4 + 4 + 4 + 8 + 4)            \* 0x3e
      [] id = 82 -> SizeIs(1 + 4 + 4)                            \* 0x52 exit
      [] id = 96 -> SizeByLen16(input, 3, 3, 1, 0)               \* 0x60 zonename
      [] id = 113 -> SizeByLen16(input, 12, 12, 1, 1)            \* 0x71 arg64
      [] id = 114 -> SizeIs(1 + 1 + 8)                           \* 0x72
      [] id = 115 -> SizeIs(1 + 4 + 4 + 4 + 4 + 8 + 8)           \* 0x73
      [] id = 116 -> SizeIs(1 + 4 + 1 + 2 + 2 + 8 + 8)           \* 0x74 header64
      [] id = 117 -> SizeIs(1 + 4 + 4 + 4 + 4 + 4 + 4 + 4 + 8 + 4) \* 0x75
      [] id = 119 -> SizeIs(1 + 4 + 4 + 4 + 4 + 4 + 4 + 4 + 8 + 8) \* 0x77
      [] id = 121 -> SizeExpandedHeader(input,                   \* 0x79
                        1 + 4 + 2 + 2 + 2 + 4 + 4 + 8 + 8,
                        1 + 4 + 2 + 2 + 2 + 4 + 16 + 8 + 8,
                        "'address type' field in 64bit expanded header token")
      [] id = 122 -> SizeExpanded32(input,                       \* 0x7a
                        "'terminal address length' field in 32bit expanded subject token")
      [] id = 123 -> SizeExpanded32(input,                       \* 0x7b
                        "'terminal address length' field in 32bit expanded process token")
      [] id = 124 -> IF Len(input) < 38 THEN NeedMore(38 - Len(input)) \* 0x7c
                     ELSE SizeByAddr(input[38],
                        1 + 4 + 4 + 4 + 4 + 4 + 4 + 4 + 8 + 1 + 4,
                        1 + 4 + 4 + 4 + 4 + 4 + 4 + 4 + 8 + 1 + 16,
                        "'terminal address length' field in 64bit expanded subject token")
      [] id = 126 -> SizeIs(1 + 1 + 16)                          \* 0x7e
      [] id = 127 -> IF Len(input) < 7 THEN NeedMore(7 - Len(input)) \* 0x7f
                     ELSE LET c == bytesToUint16(Slice(input, 5, 7))
                          IN  IF c.err # NoErr THEN SizeErr(c.err)
                              ELSE SizeByAddr(c.val,
                                 1 + 2 + 2 + 2 + 2 + 4 + 2 + 4,
                                 1 + 2 + 2 + 2 + 2 + 16 + 2 + 16,
                                 "'address type' field in expanded socket token")
      [] id = 128 -> SizeIs(1 + 2 + 2 + 4)                       \* 0x80
      [] id = 129 -> SizeIs(1 + 2 + 2 + 16)                      \* 0x81
      [] id = 130 -> SizeIs(1 + 2 + 2 + 4)                       \* 0x82
      [] OTHER -> SizeUnknown(id)

(***************************************************************************)
(* The decoding switch of TokenFromByteInput (bsm.go:1006-1475), applied   *)
(* to the fully buffered token.  The outcome is a token, an error, or a    *)
(* run-time panic of a slice expression whose bounds are out of range.     *)
(***************************************************************************)
DecOk(t) == [kind |-> "ok", tok |-> t, err |-> NoErr]

DecErr(e) == [kind |-> "err", tok |-> [type |-> "nil"], err |-> e]

DecPanic == [kind |-> "panic", tok |-> [type |-> "nil"], err |-> "panic: slice bounds out of range"]

\* the first error among a sequence of conversions, in source order
RECURSIVE FirstErr(_)
FirstErr(cs) ==
    IF cs = <<>> THEN NoErr
    ELSE IF Head(cs).err # NoErr THEN Head(cs).err ELSE FirstErr(Tail(cs))

U16(b, lo, hi) == bytesToUint16(Slice(b, lo, hi))

U32(b, lo, hi) == bytesToUint32(Slice(b, lo, hi))

U64(b, lo, hi) == bytesToUint64(Slice(b, lo, hi))

\* net.IPv4(a, b, c, d): the 16-byte IPv4-in-IPv6 form
IPv4(a, b, c, d) == <<0, 0, 0, 0, 0, 0, 0, 0, 0, 0, 255, 255, a, b, c, d>>

\* binary.Uvarint: little-endian base-128 groups, [val, n]
RECURSIVE Uvarint(_, _, _, _)
Uvarint(buf, i, x, mult) ==
    IF i >= Len(buf) THEN [val |-> 0, n |-> 0]
    ELSE LET b == buf[i + 1] IN
         IF b < 128 THEN [val |-> x + b * mult, n |-> i + 1]
         ELSE Uvarint(buf, i + 1, x + (b % 128) * mult, mult * 128)

\* binary.Varint: zig-zag decoding of the Uvarint value
Varint(buf) ==
    LET u == Uvarint(buf, 0, 0, 1)
        x == u.val \div 2
    IN  IF u.val % 2 = 1 THEN -x - 1 ELSE x

ParseHeaderToken32bit(input) ==
    IF Len(input) # 18 THEN DecErr("invalid length of 32bit header token")
    ELSE IF input[1] # 20 THEN DecErr("token ID mismatch")
    ELSE LET count == U32(input, 1, 5)
             etype == U16(input, 6, 8)
             emod  == U16(input, 8, 10)
             secs  == U32(input, 10, 14)
             nsecs == U32(input, 14, 18)
             e == FirstErr(<<count, etype, emod, secs, nsecs>>)
         IN  IF e # NoErr THEN DecErr(e)
             ELSE DecOk([type |-> "HeaderToken32bit", TokenID |-> input[1],
                         RecordByteCount |-> count.val, VersionNumber |-> input[6],
                         EventType |-> etype.val, EventModifier |-> emod.val,
                         Seconds |-> secs.val, NanoSeconds |-> nsecs.val])

\* path, text and zonename: a 16-bit length, then string(b[3 : length+2])
DecodeString16(b, type) ==
    LET length == U16(b, 1, 3)
        hi == (length.val + 2) % 65536
    IN  IF length.err # NoErr THEN DecErr(length.err)
        ELSE IF ~InBounds(b, 3, hi) THEN DecPanic
        ELSE DecOk([type |-> type, TokenID |-> b[1], Length |-> length.val,
                    Text |-> Slice(b, 3, hi)])

DecodeArg32(b) ==
    LET val == U32(b, 2, 6)
        length == U16(b, 6, 8)
        hi == (length.val + 7) % 65536
        e == FirstErr(<<val, length>>)
    IN  IF e # NoErr THEN DecErr(e)
        ELSE IF ~InBounds(b, 8, hi) THEN DecPanic
        ELSE DecOk([type |-> "ArgToken32bit", TokenID |-> b[1], ArgumentID |-> b[2],
                    ArgumentValue |-> val.val, Length |-> length.val,
                    Text |-> Slice(b, 8, hi)])

\* the eight 32-bit fields shared by the subject and process tokens
IdFields(b) == [i \in 1..8 |-> U32(b, 4 * i - 3, 4 * i + 1)]

DecodeSubject32(b) ==
    LET f == IdFields(b)
        e == FirstErr(f)
    IN  IF e # NoErr THEN DecErr(e)
        ELSE DecOk([type |-> "SubjectToken32bit", TokenID |-> b[1],
                    Ids |-> [i \in 1..8 |-> f[i].val],
                    TerminalMachineAddress |-> IPv4(b[34], b[35], b[36], b[37])])

DecodeExpanded32(b, type) ==
    LET f == IdFields(b)
        alen == U32(b, 33, 37)
        e == FirstErr(f \o <<alen>>)
    IN  IF e # NoErr THEN DecErr(e)
        ELSE IF alen.val = 4
             THEN DecOk([type |-> type, TokenID |-> b[1],
                         Ids |-> [i \in 1..8 |-> f[i].val],
                         TerminalAddressLength |-> alen.val,
                         TerminalMachineAddress |-> IPv4(b[38], b[39], b[40], b[41])])
        ELSE IF alen.val = 16
             THEN IF ~InBounds(b, 37, 53) THEN DecPanic
                  ELSE DecOk([type |-> type, TokenID |-> b[1],
                              Ids |-> [i \in 1..8 |-> f[i].val],
                              TerminalAddressLength |-> alen.val,
                              TerminalMachineAddress |-> Slice(b, 37, 53)])
        ELSE DecErr("can't process length of terminal machine address")

DecodeAttribute(b, type, devHi) ==
    LET f == [i \in 1..4 |-> U32(b, 4 * i - 3, 4 * i + 1)]
        node == U64(b, 17, 25)
        dev == IF devHi = 29 THEN U32(b, 25, 29) ELSE U64(b, 25, 33)
        e == FirstErr(f \o <<node, dev>>)
    IN  IF e # NoErr THEN DecErr(e)
        ELSE DecOk([type |-> type, TokenID |-> b[1],
                    FileAccessMode |-> f[1].val, OwnerUserID |-> f[2].val,
                    OwnerGroupID |-> f[3].val, FileSystemID |-> f[4].val,
                    FileSystemNodeID |-> node.val, Device |-> dev.val])

DecodeSocket(b, v6) ==
    LET fam == U16(b, 1, 3)
        port == U16(b, 3, 5)
        e == FirstErr(<<fam, port>>)
    IN  IF e # NoErr THEN DecErr(e)
        ELSE DecOk([type |-> "SocketToken", TokenID |-> b[1],
                    SocketFamily |-> fam.val, LocalPort |-> port.val,
                    SocketAddress |-> IF v6 THEN Slice(b, 5, 21)
                                      ELSE IPv4(b[6], b[7], b[8], b[9])])

DecodeTrailer(b) ==
    LET tmagic == U16(b, 1, 3)
        bcount == U32(b, 3, 6)
        e == FirstErr(<<tmagic, bcount>>)
    IN  IF e # NoErr THEN DecErr(e)
        ELSE DecOk([type |-> "TrailerToken", TokenID |-> b[1],
                    TrailerMagic |-> tmagic.val, RecordByteCount |-> bcount.val])

DecodeReturn32(b) ==
    LET rval == U32(b, 2, 6)
    IN  IF rval.err # NoErr THEN DecErr(rval.err)
        ELSE DecOk([type |-> "ReturnToken32bit", TokenID |-> b[1],
                    ErrorNumber |-> b[2], ReturnValue |-> rval.val])

DecodeIPort(b) ==
    LET port == U16(b, 1, 3)
    IN  IF port.err # NoErr THEN DecErr(port.err)
        ELSE DecOk([type |-> "IPortToken", TokenID |-> b[1], PortNumber |-> port.val])

DecodeExit(b) ==
    LET stat == U32(b, 1, 3)
    IN  IF stat.err # NoErr THEN DecErr(stat.err)
        ELSE DecOk([type |-> "ExitToken", TokenID |-> b[1], Status |-> stat.val,
                    ReturnValue |-> Varint(Slice(b, 3, 7))])

DecodeToken(tokenBuffer) ==
    LET id == tokenBuffer[1] IN
    CASE id = 19 -> DecodeTrailer(tokenBuffer)                          \* 0x13
      [] id = 20 -> ParseHeaderToken32bit(tokenBuffer)                  \* 0x14
      [] id = 35 -> DecodeString16(tokenBuffer, "PathToken")            \* 0x23
      [] id = 36 -> DecodeSubject32(tokenBuffer)                        \* 0x24
      [] id = 39 -> DecodeReturn32(tokenBuffer)                         \* 0x27
      [] id = 40 -> DecodeString16(tokenBuffer, "TextToken")            \* 0x28
      [] id = 44 -> DecodeIPort(tokenBuffer)                            \* 0x2c
      [] id = 45 -> DecodeArg32(tokenBuffer)                            \* 0x2d
      [] id = 46 -> DecodeSocket(tokenBuffer, FALSE)                    \* 0x2e
      [] id = 62 -> DecodeAttribute(tokenBuffer, "AttributeToken32bit", 29) \* 0x3e
      [] id = 82 -> DecodeExit(tokenBuffer)                             \* 0x52
      [] id = 96 -> DecodeString16(tokenBuffer, "ZonenameToken")        \* 0x60
      [] id = 115 -> DecodeAttribute(tokenBuffer, "AttributeToken64bit", 33) \* 0x73
      [] id = 122 -> DecodeExpanded32(tokenBuffer, "ExpandedSubjectToken32bit") \* 0x7a
      [] id = 123 -> DecodeExpanded32(tokenBuffer, "ExpandedProcessToken32bit") \* 0x7b
      [] id = 128 -> DecodeSocket(tokenBuffer, FALSE)                   \* 0x80
      [] id = 129 -> DecodeSocket(tokenBuffer, TRUE)                    \* 0x81
      [] id = 130 -> DecodeSocket(tokenBuffer, FALSE)                   \* 0x82
      [] OTHER -> DecErr("new token ID found")

(***************************************************************************)
(* The byte streams the reader is run on: up to MaxToks tokens of the      *)
(* library below, concatenated, with up to MaxCut bytes cut off the end.   *)
(* kind is the token's role in the BSM format, secs/nsecs the time stamp   *)
(* a header carries.                                                       *)
(***************************************************************************)
MaxToks == 4

MaxCut == 2

MaxChunk == 1

Header32 == <<20, 0, 0, 0, 25, 11, 0, 1, 0, 0, 0, 0, 0, 7, 0, 0, 0, 9>>

Header64 == <<116, 0, 0, 0, 33, 11, 0, 1, 0, 0>> \o Zeros(7) \o <<5>> \o Zeros(7) \o <<6>>

Trailer == <<19, 177, 5, 0, 0, 0, 25>>

TextH == <<40, 0, 2, 104, 0>>

PathEmpty == <<35, 0, 0>>

Lib ==
    << [bytes |-> Header32, kind |-> "header", secs |-> 7, nsecs |-> 9],
       [bytes |-> Header64, kind |-> "header", secs |-> 5, nsecs |-> 6],
       [bytes |-> Trailer, kind |-> "trailer", secs |-> 0, nsecs |-> 0],
       [bytes |-> TextH, kind |-> "token", secs |-> 0, nsecs |-> 0],
       [bytes |-> PathEmpty, kind |-> "malformed", secs |-> 0, nsecs |-> 0] >>

TokLists == UNION {[1..k -> 1..Len(Lib)] : k \in 0..MaxToks}

RECURSIVE Flat(_)
Flat(ts) == IF ts = <<>> THEN <<>> ELSE Lib[Head(ts)].bytes \o Flat(Tail(ts))

Min(a, b) == IF a < b THEN a ELSE b

(***************************************************************************)
(* State                                                                   *)
(***************************************************************************)
VARIABLES
    toks,         \* the tokens the byte source was built from
    input,        \* the bytes the io.Reader delivers
    chunk,        \* the most bytes one Read of the io.Reader returns (0: no limit)
    pos,          \* bytes consumed from the io.Reader
    pc,           \* the producer goroutine's position
    phase,        \* ReadBsmRecord: "header" (line 1499) or "next" (1521/1532)
    tokenBuffer, bufidx, increase, buflen,  \* locals of TokenFromByteInput
    rec,          \* ReadBsmRecord's rec
    res,          \* RecordGenerator's res, the value of the pending send
    chan,         \* resChan: "open" or "closed"
    consumer,     \* "receiving", "dropped" or "finished"
    received,     \* the results the consumer has received, in order
    produced,     \* number of ReadBsmRecord calls that have returned
    callStart,    \* pos when the current ReadBsmRecord call began
    tokStart,     \* pos when the current TokenFromByteInput call began
    callLog,      \* the tokens fully buffered by the current ReadBsmRecord call
    lastTok,      \* what the last TokenFromByteInput call returned
    arg,          \* the bytes a function called on its own is applied to
    ret           \* the function called on its own and what it returned

vars == <<arg, ret, toks, input, chunk, pos, pc, phase, tokenBuffer, bufidx, increase,
          buflen, rec, res, chan, consumer, received, produced, callStart,
          tokStart, callLog, lastTok>>

EmptyRec == [Seconds |-> 0, NanoSeconds |-> 0, Tokens |-> <<>>]

NoTok == [start |-> 0, end |-> 0, out |-> DecErr("no call yet")]

NoRet == [fn |-> "none", val |-> SizeErr("no call yet")]

Init ==
    /\ toks \in TokLists
    /\ \E cut \in 0..MaxCut :
          /\ cut <= Len(Flat(toks))
          /\ input = SubSeq(Flat(toks), 1, Len(Flat(toks)) - cut)
    /\ chunk \in 0..MaxChunk
    /\ pos = 0
    /\ pc = "readID"
    /\ phase = "header"
    /\ tokenBuffer = <<>>
    /\ bufidx = 0
    /\ increase = 0
    /\ buflen = 0
    /\ rec = EmptyRec
    /\ res = [Record |-> EmptyRec, Error |-> NoErr]
    /\ chan = "open"
    /\ consumer = "receiving"
    /\ received = <<>>
    /\ produced = 0
    /\ callStart = 0
    /\ tokStart = 0
    /\ callLog = <<>>
    /\ lastTok = NoTok
    /\ arg = <<>>
    /\ ret = NoRet

(***************************************************************************)
(* input.Read(p) with len(p) = req > 0 and bytes left returns              *)
(* ReadCount(req) bytes: all it can of a reader that fills the request (a  *)
(* bytes.Buffer), at most chunk bytes of one that reads short (chunk = 1   *)
(* is iotest.OneByteReader).  A reader at its end returns (0, EOF); a read *)
(* into an empty slice returns (0, nil), as bytes.Buffer does.             *)
(***************************************************************************)
Avail == Len(input) - pos

ReadCount(req) ==
    IF chunk = 0 THEN Min(req, Avail) ELSE Min(Min(req, Avail), chunk)

\* copy(dst, input[pos:pos+n]) into buf[idx:]
Fill(buf, idx, n) ==
    [i \in 1..Len(buf) |->
        IF i > idx /\ i <= idx + n THEN input[pos + (i - idx)] ELSE buf[i]]

(***************************************************************************)
(* TokenFromByteInput (bsm.go:953-1003), one step per input.Read.  A step  *)
(* yields the reader's next position and locals, or (pc = "ret") what the  *)
(* call returns; full tells that the whole token was buffered.             *)
(***************************************************************************)
Goes(p, buf, idx, inc, len) ==
    [pc |-> p, tokenBuffer |-> buf, bufidx |-> idx, increase |-> inc,
     buflen |-> len, out |-> DecErr(NoErr), full |-> FALSE]

Returns(o, buf, f) ==
    [pc |-> "ret", tokenBuffer |-> buf, bufidx |-> 0, increase |-> 0,
     buflen |-> 0, out |-> o, full |-> f]

\* lines 994-997: tmp := make([]byte, buflen); copy(tmp, tokenBuffer);
\* then the slice expression tokenBuffer[bufidx:buflen] of the last Read
Allocate(buf, idx, inc, len) ==
    LET tmp == [i \in 1..len |-> IF i <= Len(buf) THEN buf[i] ELSE 0]
    IN  IF ~InBounds(tmp, idx, len) THEN Returns(DecPanic, buf, FALSE)
        ELSE Goes("readRest", tmp, idx, inc, len)

\* lines 957-974: the read of the token ID and the first call of the sizer
StepID ==
    IF Avail = 0 THEN Returns(DecErr(EOF), <<>>, FALSE)
    ELSE LET id == <<input[pos + 1]>>
             sz == determineTokenSize(id)
         IN  IF sz.err # NoErr THEN Returns(DecErr(sz.err), id, FALSE)
             ELSE IF sz.moreBytes # 0
                  THEN Goes("readMore", id \o Zeros(sz.moreBytes), 1,
                            sz.moreBytes, sz.size)
                  ELSE Allocate(id, 1, sz.moreBytes, sz.size)

\* StepMore taking every Read of the loop to fill its request
StepMore_assumeFull(n) ==
    IF Avail = 0 THEN Returns(DecErr(EOF), tokenBuffer, FALSE)
    ELSE LET buf == Fill(tokenBuffer, bufidx, n)
             idx == bufidx + increase
             sz == determineTokenSize(buf)
         IN  IF sz.err # NoErr THEN Returns(DecErr(sz.err), buf, FALSE)
             ELSE Allocate(buf, idx, sz.moreBytes, sz.size)

\* lines 975-992: one Read of the loop, then (loop left) the second sizer call
StepMore(n) ==
    IF Avail = 0 THEN Returns(DecErr(EOF), tokenBuffer, FALSE)
    ELSE LET buf == Fill(tokenBuffer, bufidx, n)
             idx == bufidx + n
             inc == IF n # increase THEN increase - n ELSE 0
             sz == determineTokenSize(buf)
         IN  IF inc > 0 THEN Goes("readMore", buf, idx, inc, buflen)
             ELSE IF sz.err # NoErr THEN Returns(DecErr(sz.err), buf, FALSE)
             ELSE Allocate(buf, idx, sz.moreBytes, sz.size)

\* StepRest without the check of the last Read's count (lines 1001-1003)
StepRest_acceptShort(n) ==
    IF buflen - bufidx = 0 THEN Returns(DecodeToken(tokenBuffer), tokenBuffer, TRUE)
    ELSE IF Avail = 0 THEN Returns(DecErr(EOF), tokenBuffer, FALSE)
    ELSE LET buf == Fill(tokenBuffer, bufidx, n)
         IN  Returns(DecodeToken(buf), buf, TRUE)

\* lines 997-1006: the last Read, the count check and the decoding switch
StepRest(n) ==
    IF buflen - bufidx = 0 THEN Returns(DecodeToken(tokenBuffer), tokenBuffer, TRUE)
    ELSE IF Avail = 0 THEN Returns(DecErr(EOF), tokenBuffer, FALSE)
    ELSE IF n # buflen - bufidx
         THEN Returns(DecErr("read fewer bytes than wanted"),
                      Fill(tokenBuffer, bufidx, n), FALSE)
    ELSE LET buf == Fill(tokenBuffer, bufidx, n)
         IN  Returns(DecodeToken(buf), buf, TRUE)

(***************************************************************************)
(* ReadBsmRecord (bsm.go:1495-1540)                                        *)
(***************************************************************************)
HeaderTypes ==
    {"HeaderToken32bit", "HeaderToken64bit", "ExpandedHeaderToken32bit",
     "ExpandedHeaderToken64bit"}

\* FrameHeader without the default case of its type switch
FrameHeader_noDefault(r, tok) ==
    IF tok.type \in HeaderTypes
    THEN [err |-> NoErr,
          rec |-> [r EXCEPT !.Seconds = tok.Seconds, !.NanoSeconds = tok.NanoSeconds]]
    ELSE [err |-> NoErr, rec |-> r]

\* lines 1504-1519: the type switch on the first token
FrameHeader(r, tok) ==
    IF tok.type \in HeaderTypes
    THEN [err |-> NoErr,
          rec |-> [r EXCEPT !.Seconds = tok.Seconds, !.NanoSeconds = tok.NanoSeconds]]
    ELSE [err |-> "no header token found", rec |-> r]

\* FrameNext appending the token before it tests for the trailer
FrameNext_appendFirst(r, tok) ==
    [isEnd |-> tok.type = "TrailerToken", rec |-> [r EXCEPT !.Tokens = Append(@, tok)]]

\* lines 1526-1537: a trailer ends the record, any other token is appended
FrameNext(r, tok) ==
    IF tok.type = "TrailerToken"
    THEN [isEnd |-> TRUE, rec |-> r]
    ELSE [isEnd |-> FALSE, rec |-> [r EXCEPT !.Tokens = Append(@, tok)]]

\* ReadBsmRecord returns (r, e); RecordGenerator builds res and goes to its send
Result(r, e) ==
    /\ res' = [Record |-> r, Error |-> e]
    /\ rec' = r
    /\ pc' = "send"
    /\ produced' = produced + 1
    /\ UNCHANGED phase

\* ReadBsmRecord goes on to its next call of TokenFromByteInput
ReadOn(r) ==
    /\ rec' = r
    /\ phase' = "next"
    /\ pc' = "readID"
    /\ UNCHANGED <<res, produced>>

\* Resume returning an empty record with the error of a token read
Resume_emptyOnError(out) ==
    IF out.kind = "panic"
    THEN pc' = "panic" /\ UNCHANGED <<phase, rec, res, produced>>
    ELSE IF out.err # NoErr THEN Result(EmptyRec, out.err)
    ELSE IF phase = "header"
         THEN LET h == FrameHeader(rec, out.tok)
              IN  IF h.err # NoErr THEN Result(h.rec, h.err) ELSE ReadOn(h.rec)
         ELSE LET f == FrameNext(rec, out.tok)
              IN  IF f.isEnd THEN Result(f.rec, NoErr) ELSE ReadOn(f.rec)

\* ReadBsmRecord resumes with what TokenFromByteInput returned
Resume(out) ==
    IF out.kind = "panic"
    THEN pc' = "panic" /\ UNCHANGED <<phase, rec, res, produced>>
    ELSE IF out.err # NoErr THEN Result(rec, out.err)
    ELSE IF phase = "header"
         THEN LET h == FrameHeader(rec, out.tok)
              IN  IF h.err # NoErr THEN Result(h.rec, h.err) ELSE ReadOn(h.rec)
         ELSE LET f == FrameNext(rec, out.tok)
              IN  IF f.isEnd THEN Result(f.rec, NoErr) ELSE ReadOn(f.rec)

\* the effect of one input.Read that returned n bytes, and of the code up to
\* the producer's next Read or send
Apply(n, st) ==
    /\ pos' = pos + n
    /\ tokStart' = IF pc = "readID" THEN pos ELSE tokStart
    /\ IF st.pc = "ret"
       THEN /\ lastTok' = [start |-> tokStart', end |-> pos', out |-> st.out]
            /\ callLog' = IF st.full
                          THEN Append(callLog, [raw |-> st.tokenBuffer, out |-> st.out])
                          ELSE callLog
            /\ tokenBuffer' = <<>>
            /\ bufidx' = 0
            /\ increase' = 0
            /\ buflen' = 0
            /\ Resume(st.out)
       ELSE /\ pc' = st.pc
            /\ tokenBuffer' = st.tokenBuffer
            /\ bufidx' = st.bufidx
            /\ increase' = st.increase
            /\ buflen' = st.buflen
            /\ UNCHANGED <<phase, rec, res, produced, lastTok, callLog>>
    /\ UNCHANGED <<arg, ret, toks, input, chunk, chan, consumer, received, callStart>>

ReadTokenID ==
    /\ pc = "readID"
    /\ Apply(ReadCount(1), StepID)

ReadMore ==
    /\ pc = "readMore"
    /\ Apply(ReadCount(increase), StepMore(ReadCount(increase)))

ReadRest ==
    /\ pc = "readRest"
    /\ Apply(ReadCount(buflen - bufidx), StepRest(ReadCount(buflen - bufidx)))

(***************************************************************************)
(* RecordGenerator (bsm.go:1544-1565) and the consumer of its channel.     *)
(* resChan is unbuffered: the send at line 1555 completes together with    *)
(* the consumer's receive.                                                 *)
(***************************************************************************)
\* Deliver on a buffered channel: the send completes with no receive
Deliver_buffered ==
    /\ pc = "send"
    /\ IF res.Error = EOF
       THEN /\ pc' = "close"
            /\ UNCHANGED <<rec, phase, callStart, callLog>>
       ELSE /\ pc' = "readID"
            /\ rec' = EmptyRec
            /\ phase' = "header"
            /\ callStart' = pos
            /\ callLog' = <<>>
    /\ UNCHANGED <<arg, ret, toks, input, chunk, pos, tokenBuffer, bufidx, increase, buflen,
                   res, chan, consumer, received, produced, tokStart, lastTok>>

Deliver ==
    /\ pc = "send"
    /\ consumer = "receiving"
    /\ received' = Append(received, res)
    /\ IF res.Error = EOF
       THEN /\ pc' = "close"
            /\ UNCHANGED <<rec, phase, callStart, callLog>>
       ELSE /\ pc' = "readID"
            /\ rec' = EmptyRec
            /\ phase' = "header"
            /\ callStart' = pos
            /\ callLog' = <<>>
    /\ UNCHANGED <<arg, ret, toks, input, chunk, pos, tokenBuffer, bufidx, increase, buflen,
                   res, chan, consumer, produced, tokStart, lastTok>>

Close ==
    /\ pc = "close"
    /\ chan' = "closed"
    /\ pc' = "done"
    /\ UNCHANGED <<arg, ret, toks, input, chunk, pos, phase, tokenBuffer, bufidx, increase,
                   buflen, rec, res, consumer, received, produced, callStart,
                   tokStart, callLog, lastTok>>

\* the consumer stops receiving and drops the channel
Drop ==
    /\ consumer = "receiving"
    /\ chan = "open"
    /\ consumer' = "dropped"
    /\ UNCHANGED <<arg, ret, toks, input, chunk, pos, pc, phase, tokenBuffer, bufidx,
                   increase, buflen, rec, res, chan, received, produced,
                   callStart, tokStart, callLog, lastTok>>

\* the consumer's receive on the closed channel ends its range loop
RangeEnds ==
    /\ consumer = "receiving"
    /\ chan = "closed"
    /\ consumer' = "finished"
    /\ UNCHANGED <<arg, ret, toks, input, chunk, pos, pc, phase, tokenBuffer, bufidx,
                   increase, buflen, rec, res, chan, received, produced,
                   callStart, tokStart, callLog, lastTok>>

Producer == ReadTokenID \/ ReadMore \/ ReadRest \/ Close

Next == ReadTokenID \/ ReadMore \/ ReadRest \/ Deliver \/ Close \/ Drop \/ RangeEnds

Spec == Init /\ [][Next]_vars

\* the streams of the liveness checks
MaxLiveToks == 2

LiveInit == Init /\ Len(toks) <= MaxLiveToks

\* the scheduler runs a goroutine that can run, a Read of the finite source
\* returns, and a consumer that has not dropped the channel goes on
\* receiving; Drop is never forced
LiveSpec ==
    /\ LiveInit
    /\ [][Next]_vars
    /\ WF_vars(Producer)
    /\ WF_vars(Deliver)
    /\ WF_vars(RangeEnds)

TypeOK ==
    /\ pos \in 0..Len(input)
    /\ pc \in {"readID", "readMore", "readRest", "send", "close", "done", "panic"}
    /\ phase \in {"header", "next"}
    /\ chan \in {"open", "closed"}
    /\ consumer \in {"receiving", "dropped", "finished"}

(***************************************************************************)
(* TokenFromByteInput on a reader that fills every request, as one         *)
(* function of the position p it starts at: where the call ends and what   *)
(* it returns.                                                             *)
(***************************************************************************)
FullRead(p) ==
    LET avail == Len(input) - p
        id == <<input[p + 1]>>
        sz1 == determineTokenSize(id)
        more == sz1.moreBytes
        idx == 1 + more
        prefix == SubSeq(input, p + 1, p + idx)
        sz == IF more = 0 THEN sz1 ELSE determineTokenSize(prefix)
        left == avail - idx
        rest == sz.size - idx
    IN  IF avail = 0 THEN [end |-> p, out |-> DecErr(EOF)]
        ELSE IF sz1.err # NoErr THEN [end |-> p + 1, out |-> DecErr(sz1.err)]
        ELSE IF left < 0 THEN [end |-> Len(input), out |-> DecErr(EOF)]
        ELSE IF sz.err # NoErr THEN [end |-> p + idx, out |-> DecErr(sz.err)]
        ELSE IF rest < 0 THEN [end |-> p + idx, out |-> DecPanic]
        ELSE IF rest = 0
             THEN [end |-> p + idx, out |-> DecodeToken(prefix)]
        ELSE IF left = 0 THEN [end |-> p + idx, out |-> DecErr(EOF)]
        ELSE IF left < rest
             THEN [end |-> Len(input), out |-> DecErr("read fewer bytes than wanted")]
        ELSE [end |-> p + sz.size,
              out |-> DecodeToken(SubSeq(input, p + 1, p + sz.size))]

(***************************************************************************)
(* The BSM format, for stating the claims: big-endian fields, the header   *)
(* variants and where each keeps its time stamp, well-formed streams.      *)
(***************************************************************************)
RECURSIVE BigEndian(_)
BigEndian(s) ==
    IF s = <<>> THEN 0
    ELSE 256 * BigEndian(SubSeq(s, 1, Len(s) - 1)) + s[Len(s)]

HeaderIDs == {20, 21, 116, 121}

TrailerID == 19

\* offset of the seconds field and width of the two time fields
HeaderTime(raw) ==
    CASE raw[1] = 20 -> [at |-> 10, w |-> 4]
      [] raw[1] = 116 -> [at |-> 10, w |-> 8]
      [] raw[1] = 21 -> [at |-> 14 + BigEndian(Slice(raw, 10, 14)), w |-> 4]
      [] raw[1] = 121 -> [at |-> 14 + BigEndian(Slice(raw, 10, 14)), w |-> 8]

HeaderSeconds(raw) ==
    LET t == HeaderTime(raw) IN BigEndian(Slice(raw, t.at, t.at + t.w))

HeaderNanoSeconds(raw) ==
    LET t == HeaderTime(raw) IN BigEndian(Slice(raw, t.at + t.w, t.at + 2 * t.w))

RECURSIVE TotalLen(_)
TotalLen(log) == IF log = <<>> THEN 0 ELSE Len(Head(log).raw) + TotalLen(Tail(log))

\* the records of a token list: header, tokens, trailer, repeated
RECURSIVE Records(_, _, _, _)
Records(ts, open, cur, acc) ==
    IF ts = <<>> THEN [ok |-> ~open, recs |-> acc]
    ELSE LET t == Lib[Head(ts)] IN
         IF t.kind = "header" /\ ~open
         THEN Records(Tail(ts), TRUE,
                      [Seconds |-> t.secs, NanoSeconds |-> t.nsecs, NTokens |-> 0,
                       Error |-> NoErr], acc)
         ELSE IF t.kind = "token" /\ open
         THEN Records(Tail(ts), TRUE, [cur EXCEPT !.NTokens = @ + 1], acc)
         ELSE IF t.kind = "trailer" /\ open
         THEN Records(Tail(ts), FALSE, cur, Append(acc, cur))
         ELSE [ok |-> FALSE, recs |-> acc]

NoSummary == [Seconds |-> 0, NanoSeconds |-> 0, NTokens |-> 0, Error |-> EOF]

WellFormed == Records(toks, FALSE, NoSummary, <<>>).ok /\ input = Flat(toks)

\* what the consumer is to receive from a well-formed stream
Expected == Records(toks, FALSE, NoSummary, <<>>).recs \o <<NoSummary>>

Summary(r) ==
    [Seconds |-> r.Record.Seconds, NanoSeconds |-> r.Record.NanoSeconds,
     NTokens |-> Len(r.Record.Tokens), Error |-> r.Error]

Reading == pc \in {"readID", "readMore", "readRest"}

(***************************************************************************)
(* Claims                                                                  *)
(***************************************************************************)

C2_MissingHeader ==
    (/\ Len(callLog) >= 1
     /\ callLog[1].out.kind = "ok"
     /\ callLog[1].raw[1] \notin HeaderIDs) =>
        /\ pc = "send"
        /\ res.Error = "no header token found"
        /\ res.Record.Tokens = <<>>
        /\ Len(callLog) = 1
        /\ pos = callStart + Len(callLog[1].raw)

\* a call has returned on a text token as its first token, with bytes left unread
C2_Witness ==
    /\ pc = "send"
    /\ Len(callLog) = 1
    /\ callLog[1].out.kind = "ok"
    /\ callLog[1].raw[1] = 40
    /\ res.Error = "no header token found"
    /\ Avail > 0

\* C3: a first token that is one of the four header variants is accepted:
\* ReadBsmRecord is in its record (past line 1519) with the header's seconds
\* and nanoseconds in rec.
C3_HeaderVariantsAccepted ==
    (Len(callLog) >= 1 /\ callLog[1].raw[1] \in HeaderIDs) =>
        /\ callLog[1].out.kind = "ok"
        /\ phase = "next"
        /\ rec.Seconds = HeaderSeconds(callLog[1].raw)
        /\ rec.NanoSeconds = HeaderNanoSeconds(callLog[1].raw)

\* C4: ReadBsmRecord returns EOF only when the source was exhausted before
\* the first byte of the call's header; once a header was accepted, the end
\* of the source gives an error other than EOF.
C4_EOFOnlyBeforeHeader ==
    (pc = "send" /\ res.Error = EOF) => (phase = "header" /\ pos = callStart)

\* C5: from a source holding well-formed records and then its end, the
\* consumer receives those records in order with nil errors, then one EOF
\* result, and the channel is closed after it and not before.  Stated for a
\* reader that fills every request.
C5_RecordsThenEOF ==
    (WellFormed /\ chunk = 0) =>
        /\ Len(received) <= Len(Expected)
        /\ \A i \in 1..Len(received) : Summary(received[i]) = Expected[i]
        /\ pc = "send" => Len(received) < Len(Expected)
        /\ pc = "send" => Summary(res) = Expected[Len(received) + 1]
        /\ chan = "closed" => Len(received) = Len(Expected)
        /\ pc # "panic"

\* C6: after a result with a non-nil error, every later result the consumer
\* receives has a non-nil error too.
C6_NoRecovery ==
    \A i, j \in 1..Len(received) :
        (i < j /\ received[i].Error # NoErr) => received[j].Error # NoErr

\* C7: with a consumer that keeps receiving, the producer eventually closes
\* the channel, whatever the source holds.
C7_EventuallyCloses == <>(chan = "closed" \/ consumer = "dropped")

\* C8: the producer waits at its send until the consumer has received the
\* result: at most one returned result is not yet received, and the producer
\* is at a Read of the source only when every returned result was received.
C8_Backpressure ==
    /\ produced - Len(received) \in {0, 1}
    /\ produced - Len(received) = 1 => pc = "send"
    /\ Reading => produced = Len(received)

\* the producer reads on for a third record after two results were received
C8_Witness ==
    /\ pc = "readRest"
    /\ produced = 2
    /\ Len(received) = 2

\* C9: once the consumer has dropped the channel while the source still has
\* data, the producer eventually terminates instead of staying blocked at
\* its send.
C9_DroppedProducerStops ==
    (consumer = "dropped" /\ Avail > 0) ~> (pc \in {"done", "panic"})

\* C10: with a reader that returns fewer bytes than asked for,
\* TokenFromByteInput returns what it returns with a reader that fills every
\* request, and consumes the same bytes.
C10_ShortReadsTolerated ==
    lastTok # NoTok =>
        /\ lastTok.out = FullRead(lastTok.start).out
        /\ lastTok.end = FullRead(lastTok.start).end

\* with a reader that fills every request the stepwise reader and FullRead agree
FullReaderAgrees == chunk = 0 => C10_ShortReadsTolerated

(***************************************************************************)
(* Single tokens.  TokenFromByteInput is run on sources that hold one      *)
(* token of each ID the sizer knows, sized as the sizer sizes it, or an ID *)
(* it does not know; then nothing or a trailer token; up to MaxCut bytes   *)
(* are cut off the end.                                                    *)
(***************************************************************************)
\* the token IDs of the registry
Registry ==
    {17, 19, 20, 21} \cup (33..40) \cup (42..47) \cup {50, 52, 60, 61, 62, 82, 96}
        \cup (113..117) \cup {119} \cup (121..130)

\* the IDs whose size determineTokenSize knows from the ID alone
FixedIDs ==
    {id \in 0..255 : LET sz == determineTokenSize(<<id>>)
                     IN  sz.err = NoErr /\ sz.moreBytes = 0}

FixedSamples == {<<id>> \o Zeros(determineTokenSize(<<id>>).size - 1) : id \in FixedIDs}

VarSamples ==
    { <<17>> \o Zeros(8) \o <<0, 1, 97, 0>>,
      <<21, 0, 0, 0, 30, 11, 0, 1, 0, 0, 0, 0, 0, 4>> \o Zeros(12),
      <<33, 0, 1, 2, 7, 7>>,
      <<35, 0, 2, 47, 0>>,
      <<35, 0, 1, 0>>,
      PathEmpty,
      <<37, 0, 0>>,
      <<37, 0, 1, 47, 0>>,
      TextH,
      <<45, 1, 0, 0, 0, 5, 0, 2, 120, 0>>,
      <<52, 0, 1, 0, 0, 0, 7>>,
      <<60, 0, 0, 0, 0>>,
      <<61, 0, 0, 0, 0>>,
      <<60, 0, 0, 0, 1, 97, 0>>,
      <<96, 0, 2, 122, 0>>,
      <<113, 1>> \o Zeros(8) \o <<0, 1, 120, 0>>,
      <<121, 0, 0, 0, 39, 11, 0, 1, 0, 0, 0, 0, 0, 4>> \o Zeros(21),
      <<122>> \o Zeros(35) \o <<4, 10, 0, 0, 1>>,
      <<122>> \o Zeros(35) \o <<16>> \o Zeros(16),
      <<123>> \o Zeros(35) \o <<4, 10, 0, 0, 1>>,
      <<124>> \o Zeros(36) \o <<4, 10, 0, 0, 1>>,
      <<125>> \o Zeros(36) \o <<4, 10, 0, 0, 1>>,
      <<127, 0, 2, 0, 0, 0, 4>> \o Zeros(12) }

\* sources starting with an ID that is not of the registry
UnknownSamples == {<<255>>, <<0>>, <<18>>, <<255, 1, 2>>}

TokSamples == FixedSamples \cup VarSamples \cup UnknownSamples \cup {Header32}

TokTails == {<<>>, Trailer}

TokInit ==
    /\ toks = <<>>
    /\ \E s \in TokSamples, t \in TokTails, cut \in 0..MaxCut :
          /\ cut <= Len(s \o t)
          /\ input = SubSeq(s \o t, 1, Len(s \o t) - cut)
    /\ chunk \in 0..MaxChunk
    /\ pos = 0
    /\ pc = "readID"
    /\ phase = "header"
    /\ tokenBuffer = <<>>
    /\ bufidx = 0
    /\ increase = 0
    /\ buflen = 0
    /\ rec = EmptyRec
    /\ res = [Record |-> EmptyRec, Error |-> NoErr]
    /\ chan = "open"
    /\ consumer = "receiving"
    /\ received = <<>>
    /\ produced = 0
    /\ callStart = 0
    /\ tokStart = 0
    /\ callLog = <<>>
    /\ lastTok = NoTok
    /\ arg = <<>>
    /\ ret = NoRet

TokSpec == TokInit /\ [][Next]_vars

\* the bytes the last TokenFromByteInput call consumed
Consumed == SubSeq(input, lastTok.start + 1, lastTok.end)

\* the last call found the source at its end before the bytes it asked for:
\* those up to the field that decides the size, or those of the size
Truncated ==
    LET left == Len(input) - lastTok.start
        first == determineTokenSize(<<input[lastTok.start + 1]>>)
        wanted == 1 + first.moreBytes
        sz == IF first.moreBytes = 0 THEN first
              ELSE determineTokenSize(SubSeq(input, lastTok.start + 1,
                                             lastTok.start + wanted))
    IN  /\ lastTok # NoTok
        /\ left >= 1
        /\ first.err = NoErr
        /\ \/ left < wanted
           \/ /\ left >= wanted
              /\ sz.err = NoErr
              /\ sz.moreBytes = 0
              /\ left < sz.size

\* C11: a call of TokenFromByteInput that returns a token has consumed as
\* many bytes as the sizer reports for the token's bytes, and these are the
\* buffer it decoded; when the size is known (the reader is at its last Read)
\* the bytes read so far are those buffered and do not exceed the size.
C11_ConsumesExactlySize ==
    /\ lastTok.out.kind = "ok" =>
          /\ determineTokenSize(Consumed) = SizeIs(lastTok.end - lastTok.start)
          /\ callLog # <<>> => callLog[Len(callLog)].raw = Consumed
    /\ pc = "readRest" =>
          /\ pos = tokStart + bufidx
          /\ bufidx <= buflen

\* a text token was returned from a source that goes on after it
C11_Witness ==
    /\ lastTok.out.kind = "ok"
    /\ lastTok.out.tok.type = "TextToken"
    /\ lastTok.end - lastTok.start = 5
    /\ Len(input) > lastTok.end

\* C12: when the source ends before the bytes of a token are all delivered,
\* the call returns an error and no token; a decoded buffer holds only bytes
\* the source delivered.
C12_NoSilentTruncation ==
    /\ Truncated => lastTok.out.kind = "err" /\ lastTok.out.tok = [type |-> "nil"]
    /\ \A i \in 1..Len(callLog) :
          callStart + TotalLen(SubSeq(callLog, 1, i)) <= Len(input)

\* a reader that fills every request ran out of bytes at its last Read
C12_Witness ==
    /\ Truncated
    /\ chunk = 0
    /\ lastTok.out.err = "read fewer bytes than wanted"
    /\ lastTok.end = Len(input)

\* C13: every fully buffered token whose ID is of the registry is decoded to
\* a token value whose TokenID is the buffer's first byte.
C13_DecoderTotal ==
    \A i \in 1..Len(callLog) :
        callLog[i].raw[1] \in Registry =>
            /\ callLog[i].out.kind = "ok"
            /\ callLog[i].out.tok.TokenID = callLog[i].raw[1]

\* C14: for a first byte that is not of the registry determineTokenSize
\* returns an error naming the ID in hex, no size and no need-more count;
\* TokenFromByteInput returns that error and no token, and ReadBsmRecord,
\* when the byte is the first of its call, that error and an empty record.
C14_UnknownID ==
    (lastTok.end > lastTok.start /\ input[lastTok.start + 1] \notin Registry) =>
        LET id == input[lastTok.start + 1]
            sz == determineTokenSize(<<id>>)
        IN  /\ sz.size = 0
            /\ sz.moreBytes = 0
            /\ sz.err # NoErr
            /\ id = 255 => sz.err = "can't determine the size of the given token (type): 0xff"
            /\ id = 0 => sz.err = "can't determine the size of the given token (type): 0x0"
            /\ id = 18 => sz.err = "can't determine the size of the given token (type): 0x12"
            /\ lastTok.out = DecErr(sz.err)
            /\ lastTok.end = lastTok.start + 1
            /\ lastTok.start = callStart =>
                  /\ pc = "send"
                  /\ res.Error = sz.err
                  /\ res.Record = EmptyRec

\* ReadBsmRecord has returned on a source that starts with 0xff and goes on
C14_Witness ==
    /\ Len(input) > 1
    /\ input[1] = 255
    /\ lastTok.start = 0
    /\ lastTok.end = 1
    /\ pc = "send"
    /\ callStart = 0
    /\ res.Error = "can't determine the size of the given token (type): 0xff"

(***************************************************************************)
(* determineTokenSize and ParseHeaderToken32bit called on their own: arg   *)
(* is the byte slice, ret names the function called and holds what it      *)
(* returned.  The slices are every single byte, and every prefix of token  *)
(* buffers whose length, count and address fields take the values below.   *)
(***************************************************************************)
LenFields == {<<0, 0>>, <<0, 1>>, <<0, 2>>, <<35, 248>>, <<255, 255>>}

CountFields == {<<0, 0>>, <<0, 1>>, <<0, 2>>, <<0, 3>>}

UnitFields == {0, 1, 2, 255}

AddrFields32 ==
    {<<0, 0, 0, 4>>, <<0, 0, 0, 16>>, <<0, 0, 0, 0>>, <<0, 0, 0, 5>>,
     <<0, 0, 4, 0>>, <<4, 0, 0, 0>>}

AddrFields16 == {<<0, 4>>, <<0, 16>>, <<0, 0>>, <<0, 5>>, <<4, 0>>}

AddrFields8 == {4, 16, 0, 5, 255}

SizerBuffers ==
    {<<17>> \o Zeros(8) \o l \o <<97, 0>> : l \in LenFields}
    \cup {<<id>> \o l \o <<97, 0>> : id \in {35, 37, 40, 52, 96}, l \in LenFields}
    \cup {<<33, 0, u, c, 7>> : u \in UnitFields, c \in UnitFields}
    \cup {<<45, 1, 0, 0, 0, 5>> \o l \o <<120, 0>> : l \in LenFields}
    \cup {<<id, 0, 0>> \o l \o <<97, 0, 98, 0>> : id \in {60, 61}, l \in CountFields}
    \cup {<<113, 1>> \o Zeros(8) \o l \o <<120, 0>> : l \in LenFields}
    \cup {<<id, 0, 0, 0, 30, 11, 0, 1, 0, 0>> \o a \o Zeros(4) :
             id \in {21, 121}, a \in AddrFields32}
    \cup {<<id>> \o Zeros(32) \o a \o Zeros(4) : id \in {122, 123}, a \in AddrFields32}
    \cup {<<id>> \o Zeros(36) \o <<a>> \o Zeros(4) : id \in {124, 125}, a \in AddrFields8}
    \cup {<<127, 0, 2, 0, 0>> \o a \o Zeros(4) : a \in AddrFields16}

Prefixes(S) == UNION {{SubSeq(b, 1, n) : n \in 0..Len(b)} : b \in S}

\* 14 00 00 00 38 0b af c8 00 00 5a 9a c2 e6 00 00 03 01 28
ScenarioA ==
    <<20, 0, 0, 0, 56, 11, 175, 200, 0, 0, 90, 154, 194, 230, 0, 0, 3, 1, 40>>

HeaderArgs == {ScenarioA, SubSeq(ScenarioA, 1, 18), Header32, Header64, Trailer}

\* slices for bytesToUint16/32/64: every slice of up to three bytes of
\* UintBytes, slices of four bytes, these after one to four zero bytes, and
\* slices longer than each width
UintBytes == {0, 1, 2, 255}

UintShort == UNION {[1..n -> UintBytes] : n \in 0..3}

UintWords == {<<h>> \o s : h \in {0, 1, 127}, s \in [1..3 -> UintBytes]}

UintArgs ==
    UintShort \cup UintWords
    \cup {Zeros(k) \o w : k \in 1..4, w \in UintWords}
    \cup {<<255, 1, 172, 180, 44>>, Zeros(8) \o <<1>>, <<1>> \o Zeros(8)}

\* the value of slice s stays under 2^31
Small(s) ==
    /\ \A i \in 1..(Len(s) - 4) : s[i] = 0
    /\ Len(s) >= 4 => s[Len(s) - 3] < 128

\* a string of n bytes that ends with NUL
Str(n) == [i \in 1..n |-> IF i = n THEN 0 ELSE 96 + (i % 26)]

\* fully buffered tokens for the decoding switch: path, text, zonename and
\* arg32 tokens of the declared lengths StrLens (and the lengths at which
\* the 16-bit end index of the string wraps), exit and trailer tokens
StrLens == {0, 1, 2, 6}

Hello == <<40, 0, 6, 104, 101, 108, 108, 111, 0>>

ExitStatus == {<<0, 0>>, <<1, 2>>, <<255, 255>>}

ExitReturn ==
    {<<0, 0, 0, 0>>, <<0, 0, 0, 5>>, <<2, 0, 0, 0>>, <<5, 0, 0, 0>>,
     <<255, 255, 255, 255>>, <<128, 0, 0, 1>>, <<129, 1, 0, 0>>}

TrailerCounts == {<<0, 0, 0, 0>>, <<0, 0, 0, 25>>, <<0, 0, 1, 0>>, <<1, 2, 3, 4>>}

DecodeArgs ==
    {<<id, 0, n>> \o Str(n) : id \in {35, 40, 96}, n \in StrLens}
    \cup {<<45, 1, 0, 0, 0, 5, 0, n>> \o Str(n) : n \in StrLens}
    \cup {Hello,
          <<40, 255, 254>> \o Str(65534),
          <<35, 255, 255>> \o Str(65535),
          <<45, 1, 0, 0, 0, 5, 255, 249>> \o Str(65529)}
    \cup {<<82>> \o st \o r \o <<0, t>> : st \in ExitStatus, r \in ExitReturn, t \in {0, 9}}
    \cup {<<19, 177, 5>> \o c : c \in TrailerCounts}
    \cup {<<19, 0, 0, 0, 0, 0, 0>>}

FnArgs ==
    {<<id>> : id \in 0..255} \cup Prefixes(SizerBuffers) \cup HeaderArgs
        \cup UintArgs \cup DecodeArgs

\* the reader, the framer and the generator are not running
FnInit ==
    /\ arg \in FnArgs
    /\ ret = NoRet
    /\ toks = <<>>
    /\ input = <<>>
    /\ chunk = 0
    /\ pos = 0
    /\ pc = "done"
    /\ phase = "header"
    /\ tokenBuffer = <<>>
    /\ bufidx = 0
    /\ increase = 0
    /\ buflen = 0
    /\ rec = EmptyRec
    /\ res = [Record |-> EmptyRec, Error |-> NoErr]
    /\ chan = "open"
    /\ consumer = "receiving"
    /\ received = <<>>
    /\ produced = 0
    /\ callStart = 0
    /\ tokStart = 0
    /\ callLog = <<>>
    /\ lastTok = NoTok

Returned(fn, val) ==
    /\ ret = NoRet
    /\ ret' = [fn |-> fn, val |-> val]
    /\ UNCHANGED <<arg, toks, input, chunk, pos, pc, phase, tokenBuffer, bufidx,
                   increase, buflen, rec, res, chan, consumer, received, produced,
                   callStart, tokStart, callLog, lastTok>>

CallDetermineTokenSize == Returned("determineTokenSize", determineTokenSize(arg))

CallParseHeaderToken32bit == Returned("ParseHeaderToken32bit", ParseHeaderToken32bit(arg))

\* the conversions, on the slices whose value stays under 2^31
CallBytesToUint16 ==
    /\ arg \in UintArgs
    /\ Returned("bytesToUint16", bytesToUint16(arg))

CallBytesToUint32 ==
    /\ arg \in UintArgs
    /\ IF Len(arg) > 4 THEN TRUE ELSE Small(arg)
    /\ Returned("bytesToUint32", bytesToUint32(arg))

CallBytesToUint64 ==
    /\ arg \in UintArgs
    /\ IF Len(arg) > 8 THEN TRUE ELSE Small(arg)
    /\ Returned("bytesToUint64", bytesToUint64(arg))

\* lines 1006-1475 on a token the reader has fully buffered: a slice of the
\* size determineTokenSize reports for it
CallDecodeToken ==
    /\ determineTokenSize(arg) = SizeIs(Len(arg))
    /\ Returned("DecodeToken", DecodeToken(arg))

FnNext ==
    \/ CallDetermineTokenSize
    \/ CallParseHeaderToken32bit
    \/ CallBytesToUint16
    \/ CallBytesToUint32
    \/ CallBytesToUint64
    \/ CallDecodeToken

FnSpec == FnInit /\ [][FnNext]_vars

\* determineTokenSize has returned on a slice that starts with a token ID
Sized == ret.fn = "determineTokenSize" /\ arg # <<>>

\* the big-endian 16-bit field of b at offset off
LengthAt(b, off) == BigEndian(Slice(b, off, off + 2))

\* what determineTokenSize returned is a size for an address of 4 or 16
\* bytes, and an error without size or need-more count for any other
AddrSized(t, size4, size16) ==
    IF t = 4 THEN ret.val = SizeIs(size4)
    ELSE IF t = 16 THEN ret.val = SizeIs(size16)
    ELSE ret.val.err # NoErr /\ ret.val.size = 0 /\ ret.val.moreBytes = 0

\* C15: ParseHeaderToken32bit on the bytes 14 00 00 00 38 0b af c8 00 00
\* 5a 9a c2 e6 00 00 03 01 28 returns no error and the token with
\* RecordByteCount 56, VersionNumber 0x0b, EventType 0xafc8, EventModifier 0,
\* Seconds 0x5a9ac2e6 and NanoSeconds 0x00030128.
C15_HeaderScenario ==
    (ret.fn = "ParseHeaderToken32bit" /\ arg = ScenarioA) =>
        ret.val = DecOk([type |-> "HeaderToken32bit", TokenID |-> 20,
                         RecordByteCount |-> 56, VersionNumber |-> 11,
                         EventType |-> 45000, EventModifier |-> 0,
                         Seconds |-> 1520091878, NanoSeconds |-> 196904])

\* the sizes of the fixed-size tokens, by token ID
FixedSizeTable ==
    (19 :> 7) @@ (20 :> 18) @@ (34 :> 6) @@ (36 :> 37) @@ (38 :> 37) @@ (39 :> 6)
    @@ (42 :> 5) @@ (43 :> 21) @@ (44 :> 3) @@ (46 :> 9) @@ (128 :> 9)
    @@ (130 :> 9) @@ (47 :> 5) @@ (50 :> 29) @@ (62 :> 29) @@ (82 :> 9)
    @@ (114 :> 10) @@ (115 :> 33) @@ (116 :> 26) @@ (117 :> 41) @@ (119 :> 41)
    @@ (126 :> 18) @@ (129 :> 21)

\* C16: given only the ID byte of a fixed-size token, determineTokenSize
\* returns the size of the table, no need-more count and no error.
C16_FixedSizes ==
    (Sized /\ Len(arg) = 1 /\ arg[1] \in DOMAIN FixedSizeTable) =>
        ret.val = SizeIs(FixedSizeTable[arg[1]])

C18_ExpandedHeaderSizes ==
    (Sized /\ arg[1] \in {21, 121} /\ Len(arg) > 14) =>
        LET base == IF arg[1] = 21 THEN 19 ELSE 27
        IN  AddrSized(BigEndian(Slice(arg, 10, 14)), base + 4, base + 16)

\* C19: for the expanded subject, process and socket tokens
\* determineTokenSize returns 41 or 53 (0x7a, 0x7b), 42 or 54 (0x7c, 0x7d),
\* 19 or 43 (0x7f) for an address length or type of 4 or 16, and an error,
\* never a size, for any other value.
C19_ExpandedSizes ==
    Sized =>
        LET id == arg[1]
            n == Len(arg)
        IN  /\ (id \in {122, 123} /\ n >= 37) =>
                   AddrSized(BigEndian(Slice(arg, 33, 37)), 41, 53)
            /\ (id \in {124, 125} /\ n >= 38) => AddrSized(arg[38], 42, 54)
            /\ (id = 127 /\ n >= 7) => AddrSized(LengthAt(arg, 5), 19, 43)

\* the end of the field that decides the size of a token, 0 for a token
\* without such a field
FieldEnd(id) ==
    CASE id = 17 -> 11
      [] id \in {21, 121} -> 14
      [] id = 33 -> 4
      [] id \in {35, 37, 40, 52, 96} -> 3
      [] id = 45 -> 8
      [] id \in {60, 61} -> 5
      [] id = 113 -> 12
      [] id \in {122, 123} -> 37
      [] id \in {124, 125} -> 38
      [] id = 127 -> 7
      [] OTHER -> 0

\* C20: on a slice of n bytes that is too short to decide the size,
\* determineTokenSize returns as need-more count the shortfall to the end of
\* the deciding field (1 for the empty slice), with no size and no error.
C20_NeedMoreIsShortfall ==
    ret.fn = "determineTokenSize" =>
        IF arg = <<>> THEN ret.val = NeedMore(1)
        ELSE Len(arg) < FieldEnd(arg[1]) =>
                 ret.val = NeedMore(FieldEnd(arg[1]) - Len(arg))

\* C21: on the ID byte of a registry token determineTokenSize returns a
\* size or a nonzero need-more count, and a slice one byte longer never gets
\* a larger need-more count than the slice before it.
C21_SizerMonotone ==
    (Sized /\ arg[1] \in Registry) =>
        /\ Len(arg) = 1 =>
              /\ ret.val.err = NoErr
              /\ \/ ret.val.size > 0 /\ ret.val.moreBytes = 0
                 \/ ret.val.size = 0 /\ ret.val.moreBytes > 0
        /\ Len(arg) >= 2 =>
              LET prev == determineTokenSize(SubSeq(arg, 1, Len(arg) - 1))
              IN  (/\ prev.err = NoErr
                   /\ prev.moreBytes > 0
                   /\ ret.val.err = NoErr
                   /\ ret.val.moreBytes > 0) => ret.val.moreBytes <= prev.moreBytes

\* C22: determineTokenSize returns a positive size with no need-more count
\* and no error, or a positive need-more count with no size and no error,
\* or an error with no size and no need-more count.
C22_ThreeOutcomes ==
    ret.fn = "determineTokenSize" =>
        \/ ret.val.size > 0 /\ ret.val.moreBytes = 0 /\ ret.val.err = NoErr
        \/ ret.val.size = 0 /\ ret.val.moreBytes > 0 /\ ret.val.err = NoErr
        \/ ret.val.size = 0 /\ ret.val.moreBytes = 0 /\ ret.val.err # NoErr

\* an expanded subject token with an address length other than 4 and 16
\* got an error
C22_Witness ==
    /\ Sized
    /\ arg[1] = 122
    /\ Len(arg) >= 37
    /\ ret.val.err # NoErr

\* the offset in s after the c-th NUL byte at or after offset i; 0 when s
\* holds fewer NUL bytes
RECURSIVE NulEnd(_, _, _)
NulEnd(s, i, c) ==
    IF c = 0 THEN i
    ELSE IF i >= Len(s) THEN 0
    ELSE NulEnd(s, i + 1, IF s[i + 1] = 0 THEN c - 1 ELSE c)

\* C23: a path-attr, exec-args or exec-env token with a count c >= 1 whose
\* c NUL bytes the source holds is read up to and including its c-th NUL
\* byte, and the read does not abort.
C23_CountedStringsRead ==
    (lastTok.end > lastTok.start /\ input[lastTok.start + 1] \in {37, 60, 61}) =>
        LET t == SubSeq(input, lastTok.start + 1, Len(input))
            field == IF t[1] = 37 THEN 3 ELSE 5
            c == IF Len(t) >= field THEN BigEndian(Slice(t, 1, field)) ELSE 0
            size == NulEnd(t, field, c)
        IN  (c >= 1 /\ size > 0) =>
                /\ lastTok.out.kind # "panic"
                /\ lastTok.end - lastTok.start = size

\* the decoding switch has returned on a fully buffered token
Decoded == ret.fn = "DecodeToken"

\* C24: a path, text, zonename or arg32 token with declared length L >= 1
\* decodes to the length L and the L - 1 bytes that follow the length field.
C24_StringsStripNul ==
    Decoded =>
        /\ arg[1] \in {35, 40, 96} =>
              LET L == LengthAt(arg, 1)
              IN  L >= 1 =>
                    /\ ret.val.kind = "ok"
                    /\ ret.val.tok.Length = L
                    /\ ret.val.tok.Text = SubSeq(arg, 4, 3 + (L - 1))
        /\ arg[1] = 45 =>
              LET L == LengthAt(arg, 6)
              IN  L >= 1 =>
                    /\ ret.val.kind = "ok"
                    /\ ret.val.tok.Length = L
                    /\ ret.val.tok.Text = SubSeq(arg, 9, 8 + (L - 1))

\* the big-endian two's-complement value of the four bytes b
Signed32(b) ==
    IF b[1] >= 128 THEN (b[1] - 256) * 16777216 + BigEndian(SubSeq(b, 2, 4))
    ELSE BigEndian(b)

\* C25: an exit token decodes to the big-endian value of its bytes 1..3 as
\* Status and the big-endian two's-complement value of its bytes 3..7 as
\* ReturnValue.
C25_ExitFields ==
    (Decoded /\ arg[1] = 82) =>
        /\ ret.val.kind = "ok"
        /\ ret.val.tok.Status = BigEndian(Slice(arg, 1, 3))
        /\ ret.val.tok.ReturnValue = Signed32(Slice(arg, 3, 7))

\* C26: a trailer token decodes to the big-endian value of its four bytes
\* 3..7 as RecordByteCount and of its bytes 1..3 as TrailerMagic.
C26_TrailerFields ==
    (Decoded /\ arg[1] = 19) =>
        /\ ret.val.kind = "ok"
        /\ ret.val.tok.RecordByteCount = BigEndian(Slice(arg, 3, 7))
        /\ ret.val.tok.TrailerMagic = BigEndian(Slice(arg, 1, 3))

\* what a conversion to `width` bytes is to return on the slice arg
Converted(width) ==
    IF Len(arg) <= width THEN ret.val = [val |-> BigEndian(arg), err |-> NoErr]
    ELSE ret.val.err # NoErr

\* C27: bytesToUint16/32/64 return the big-endian value of a slice of at
\* most 2/4/8 bytes with no error, and an error for a longer slice.
C27_BytesToUint ==
    /\ ret.fn = "bytesToUint16" => Converted(2)
    /\ ret.fn = "bytesToUint32" => Converted(4)
    /\ ret.fn = "bytesToUint64" => Converted(8)

\* bytesToUint32 has returned 258 on 00 01 02
C27_Witness ==
    /\ ret.fn = "bytesToUint32"
    /\ arg = <<0, 1, 2>>
    /\ ret.val = [val |-> 258, err |-> NoErr]

\* the sizes Test_determineTokenSize_fixed expects, by token ID
TestedSizeTable ==
    (19 :> 7) @@ (20 :> 19) @@ (36 :> 37) @@ (39 :> 6) @@ (42 :> 5) @@ (43 :> 21)
    @@ (44 :> 3) @@ (62 :> 26) @@ (82 :> 9) @@ (114 :> 10) @@ (115 :> 30)
    @@ (116 :> 27) @@ (117 :> 41) @@ (126 :> 18)

\* C28: given only the ID byte, determineTokenSize returns the size the
\* fixed-size test of the repository expects, without error.
C28_TestedSizes ==
    (Sized /\ Len(arg) = 1 /\ arg[1] \in DOMAIN TestedSizeTable) =>
        /\ ret.val.err = NoErr
        /\ ret.val.size = TestedSizeTable[arg[1]]

\* C29: on a token the sizer accepts and the reader fully buffers, the
\* decoding switch returns a token or an error; it never aborts on a slice
\* expression out of the buffer.
C29_DecoderNeverAborts ==
    Decoded => ret.val.kind \in {"ok", "err"}

\* the tokens ReadBsmRecord had appended when a read after the header failed
RECURSIVE Appended(_)
Appended(log) ==
    IF log = <<>> THEN <<>>
    ELSE IF Head(log).out.kind = "ok" THEN <<Head(log).out.tok>> \o Appended(Tail(log))
    ELSE Appended(Tail(log))

\* C30: ReadBsmRecord failing after its header returns the error with the
\* header's time stamps and the tokens appended so far, in order; failing
\* on its first token it returns the empty record; the consumer receives
\* record and error in one result.
C30_PartialRecord ==
    /\ (pc = "send" /\ res.Error # NoErr) =>
          IF phase = "header" THEN res.Record = EmptyRec
          ELSE /\ res.Record.Seconds = HeaderSeconds(callLog[1].raw)
               /\ res.Record.NanoSeconds = HeaderNanoSeconds(callLog[1].raw)
               /\ res.Record.Tokens = Appended(Tail(callLog))
    /\ (produced > 0 /\ produced = Len(received)) => received[produced] = res

\* an error after a header and one text token has been received with both
C30_Witness ==
    /\ produced = Len(received)
    /\ produced > 0
    /\ received[produced].Error = "new token ID found"
    /\ received[produced].Record.Seconds = 7
    /\ Len(received[produced].Record.Tokens) = 1

=============================================================================
